---- MODULE Spec2Model ----
(***************************************************************************)
(* Model of the isolator package: IsolationConfig, ApplicationIsolator and *)
(* its managers (filesystem, display, security, resource, requirements).   *)
(* One request is configured, compiled into a bubblewrap argument list,    *)
(* executed and cleaned up; the same request may then be run again.        *)
(***************************************************************************)
EXTENDS Integers, Sequences, FiniteSets, TLC

(***************************************************************************)
(* Bounds of the model.                                                    *)
(***************************************************************************)
\* number of directory names tempfile.mkdtemp() can draw from
NumTempNames == 2
\* number of times the same request is run
MaxRuns == 2

(***************************************************************************)
(* Strings: Python str operations used by the code.                        *)
(***************************************************************************)
None == "None"

Range(s) == {s[i] : i \in 1..Len(s)}

\* str.startswith
StartsWith(s, p) == Len(s) >= Len(p) /\ SubSeq(s, 1, Len(p)) = p

\* the "in" operator on two strings
Contains(s, sub) ==
    \E i \in 1..(Len(s) - Len(sub) + 1) : SubSeq(s, i, i + Len(sub) - 1) = sub

UpperChars == <<"A","B","C","D","E","F","G","H","I","J","K","L","M",
                "N","O","P","Q","R","S","T","U","V","W","X","Y","Z">>
LowerChars == <<"a","b","c","d","e","f","g","h","i","j","k","l","m",
                "n","o","p","q","r","s","t","u","v","w","x","y","z">>

LowerChar(c) ==
    IF \E i \in 1..Len(UpperChars) : UpperChars[i] = c
    THEN LowerChars[CHOOSE i \in 1..Len(UpperChars) : UpperChars[i] = c]
    ELSE c

UpperChar(c) ==
    IF \E i \in 1..Len(LowerChars) : LowerChars[i] = c
    THEN UpperChars[CHOOSE i \in 1..Len(LowerChars) : LowerChars[i] = c]
    ELSE c

RECURSIVE StrLower(_)
\* str.lower
StrLower(s) ==
    IF Len(s) = 0 THEN ""
    ELSE LowerChar(SubSeq(s, 1, 1)) \o StrLower(SubSeq(s, 2, Len(s)))

\* positions of "/" in a path
SlashPositions(p) == {i \in 1..Len(p) : SubSeq(p, i, i) = "/"}

Max(S) == CHOOSE m \in S : \A n \in S : n <= m

\* os.path.basename
Basename(p) ==
    IF SlashPositions(p) = {} THEN p
    ELSE SubSeq(p, Max(SlashPositions(p)) + 1, Len(p))

\* os.path.isabs
IsAbs(p) == StartsWith(p, "/")

\* os.path.join of a directory and a relative name
Join(d, n) == d \o "/" \o n

\* p is d or lies below d
IsUnder(p, d) == p = d \/ StartsWith(p, d \o "/")

\* every directory os.makedirs(p, exist_ok=True) / Path.mkdir(parents=True) leaves in place
WithParents(p) ==
    {p} \cup {SubSeq(p, 1, i - 1) : i \in {j \in SlashPositions(p) : j > 1}}

\* what shutil.rmtree(d) leaves of the filesystem
RmTree(files, d) == {p \in files : ~IsUnder(p, d)}

(***************************************************************************)
(* enums.py                                                                *)
(***************************************************************************)
IsolationLevel == {"MINIMAL", "STANDARD", "STRICT"}
ApplicationProfile == {"BASIC", "BROWSER", "MULTIMEDIA", "DEVELOPMENT", "GRAPHICS"}
DisplayServer == {"X11", "WAYLAND", "UNKNOWN"}

(***************************************************************************)
(* The host: what os.path.exists, os.environ, which(1), the cgroup         *)
(* filesystem and the profile catalog directories show to the program.     *)
(***************************************************************************)
Home == "/home/user"
UserRuntimeDir == "/run/user/1000"

\* ResourceLimits() with every field left at None
NoLimits ==
    [memory_limit |-> "", cpu_limit |-> 0, io_weight |-> 0,
     max_processes |-> 0, max_file_size |-> "", max_files |-> 0]

SystemPaths ==
    {"/data", "/proc", "/sys", "/usr", "/bin", "/sbin", "/lib", "/lib64", "/etc",
     "/opt", "/var", Home, "/dev", "/dev/shm", "/dev/null", "/dev/zero",
     "/dev/random", "/dev/urandom", "/tmp"}

DesktopPaths ==
    SystemPaths \cup
    {"/usr/local/bin", "/usr/local/lib", "/usr/local/share", "/usr/lib/firefox",
     "/run", "/run/dbus", "/run/user", UserRuntimeDir, "/run/user/1000/bus",
     "/usr/share/fonts", "/usr/share/icons", "/usr/share/applications",
     "/usr/share/mime", "/usr/share/X11", "/tmp/.X11-unix",
     Home \o "/.Xauthority", Home \o "/.config", Home \o "/.cache",
     Home \o "/.local/share", Home \o "/.mozilla",
     "/usr/bin/echo", "/usr/bin/firefox", "/data", "/data/scratch", "/data/scratch/notes"}

DesktopEnv ==
    [DISPLAY |-> ":0", WAYLAND_DISPLAY |-> "", XDG_RUNTIME_DIR |-> UserRuntimeDir,
     USER |-> "user", LANG |-> "en_US.UTF-8", TERM |-> ""]

WaylandEnv ==
    [DISPLAY |-> "", WAYLAND_DISPLAY |-> "wayland-0", XDG_RUNTIME_DIR |-> UserRuntimeDir,
     USER |-> "user", LANG |-> "", TERM |-> "xterm"]

ServerEnv ==
    [DISPLAY |-> "", WAYLAND_DISPLAY |-> "", XDG_RUNTIME_DIR |-> "",
     USER |-> "", LANG |-> "", TERM |-> "xterm"]

\* a profile document that ProfileConfig(**data) accepts
BasicDoc(limits) ==
    [wellformed |-> TRUE, name |-> "ApplicationProfile.BASIC", capabilities |-> <<>>,
     network_ports |-> <<>>, resource_limits |-> limits]

\* a document for a profile of the user's own
KioskDoc ==
    [wellformed |-> TRUE, name |-> "kiosk", capabilities |-> <<"CAP_NET_ADMIN">>,
     network_ports |-> <<8080>>, resource_limits |-> NoLimits]

\* a document for the browser profile with a lower-case capability name and a
\* port beyond 65535
BrowserDoc ==
    [wellformed |-> TRUE, name |-> "ApplicationProfile.BROWSER",
     capabilities |-> <<"net_admin">>, network_ports |-> <<8080, 65536>>,
     resource_limits |-> NoLimits]

\* a file that open(), yaml.safe_load() or ProfileConfig(**data) raises on
MalformedDoc ==
    [wellformed |-> FALSE, name |-> "", capabilities |-> <<>>,
     network_ports |-> <<>>, resource_limits |-> NoLimits]

\* a directory of ProfileManager.config_paths: the *.yaml files glob() yields
NoDir == [exists |-> FALSE, files |-> <<>>]
ProfileDir(files) == [exists |-> TRUE, files |-> files]

Hosts ==
    { \* a desktop with X11, cgroup v2 and no profile directories
      [paths |-> DesktopPaths, env |-> DesktopEnv, cgroup |-> "v2",
       catalog |-> <<NoDir, NoDir>>],
      \* a Wayland desktop with a Chrome profile directory and cgroup v1,
      \* whose catalog limits the profile named ApplicationProfile.BASIC
      [paths |-> (DesktopPaths \ {"/tmp/.X11-unix", "/usr/bin/firefox", Home \o "/.cache",
                                  "/data/scratch", "/data/scratch/notes"})
                  \cup {"/run/user/1000/wayland-0", Home \o "/.config/google-chrome",
                        "/opt/firefox/firefox", "/usr/share/chromium/seccomp-filter.bpf"},
       env |-> WaylandEnv, cgroup |-> "v1",
       catalog |-> << ProfileDir(<< BasicDoc([NoLimits EXCEPT !.memory_limit = "1G",
                                                              !.max_processes = 64,
                                                              !.cpu_limit = 50]) >>),
                      ProfileDir(<<>>) >>],
      \* a server without display, user configuration or cgroup filesystem
      [paths |-> SystemPaths \cup {"/bin/echo"}, env |-> ServerEnv, cgroup |-> "none",
       catalog |-> <<NoDir, NoDir>>],
      \* a desktop whose catalog carries a size string with an unknown unit
      \* and a browser profile of the user's own
      [paths |-> DesktopPaths, env |-> DesktopEnv, cgroup |-> "v2",
       catalog |-> << NoDir,
                      ProfileDir(<< BasicDoc([NoLimits EXCEPT !.max_file_size = "5X"]),
                                    BrowserDoc >>) >>],
      \* a desktop whose system profile directory holds a file that does not
      \* load, next to and before files that do
      [paths |-> DesktopPaths, env |-> DesktopEnv, cgroup |-> "v2",
       catalog |-> << ProfileDir(<< KioskDoc, MalformedDoc >>),
                      ProfileDir(<< BasicDoc([NoLimits EXCEPT !.max_files = 256]) >>) >>] }

(***************************************************************************)
(* The requests: the fields of IsolationConfig (config/base.py).           *)
(***************************************************************************)
Commands == { <<>>, <<"echo", "hi">>, <<"firefox", "--private">> }

\* the limits a user asks for, as main() or a caller puts them into
\* IsolationConfig.resource_limits
UserLimits ==
    [NoLimits EXCEPT !.memory_limit = "2G", !.max_processes = 32, !.max_files = 128,
                     !.max_file_size = "500M"]

\* the requests without resource limits, and a few with them
Requests ==
    [app_command : Commands,
     persist_dir : {None, "/data/persist"},
     tmp_dir : {None, "/data/scratch"},
     network_enabled : BOOLEAN,
     gui_enabled : BOOLEAN,
     isolation_level : IsolationLevel \cup {"paranoid"},
     overlay_enabled : BOOLEAN,
     profile : {None, "BASIC", "BROWSER", "kiosk"},
     resource_limits : {NoLimits}]
    \cup
    [app_command : {<<"echo", "hi">>},
     persist_dir : {None},
     tmp_dir : {None},
     network_enabled : {TRUE},
     gui_enabled : {TRUE},
     isolation_level : {"STANDARD"},
     overlay_enabled : {TRUE},
     profile : {None, "BASIC"},
     resource_limits : {UserLimits}]

\* the names tempfile.mkdtemp() can return
TempName(i) == "/tmp/tmp" \o ToString(i)
TempNames == {TempName(i) : i \in 1..NumTempNames}

\* the statuses a child process can exit with
ExitCodes == {0, 1, 130}

(***************************************************************************)
(* requirements_manager.py                                                 *)
(***************************************************************************)
\* a classification that tests the development keywords before the browser keywords
detect_profile_development_first(command) ==
    LET cmd_base == StrLower(Basename(command))
        browsers == {"chrome", "firefox", "chromium", "opera", "brave"}
        multimedia == {"vlc", "mpv", "audacity", "obs"}
        development == {"code", "idea", "pycharm", "eclipse"}
        graphics == {"gimp", "inkscape", "krita", "blender"}
    IN  IF \E a \in development : Contains(cmd_base, a) THEN "DEVELOPMENT"
        ELSE IF \E b \in browsers : Contains(cmd_base, b) THEN "BROWSER"
        ELSE IF \E a \in multimedia : Contains(cmd_base, a) THEN "MULTIMEDIA"
        ELSE IF \E a \in graphics : Contains(cmd_base, a) THEN "GRAPHICS"
        ELSE "BASIC"

\* RequirementsManager.detect_profile
detect_profile(command) ==
    LET cmd_base == StrLower(Basename(command))
        browsers == {"chrome", "firefox", "chromium", "opera", "brave"}
        multimedia == {"vlc", "mpv", "audacity", "obs"}
        development == {"code", "idea", "pycharm", "eclipse"}
        graphics == {"gimp", "inkscape", "krita", "blender"}
    IN  IF \E b \in browsers : Contains(cmd_base, b) THEN "BROWSER"
        ELSE IF \E a \in multimedia : Contains(cmd_base, a) THEN "MULTIMEDIA"
        ELSE IF \E a \in development : Contains(cmd_base, a) THEN "DEVELOPMENT"
        ELSE IF \E a \in graphics : Contains(cmd_base, a) THEN "GRAPHICS"
        ELSE "BASIC"

(***************************************************************************)
(* filesystem_manager.py                                                   *)
(***************************************************************************)
\* os.path.expanduser
Expanduser(p) == IF StartsWith(p, "~") THEN Home \o SubSeq(p, 2, Len(p)) ELSE p

\* the directories of $PATH that which(1) searches, in order
WhichPath == <<"/usr/local/bin", "/usr/bin", "/bin">>

\* subprocess.check_output(["which", name]): the path found, or None on exit status 1
Which(files, name) ==
    IF \E i \in 1..Len(WhichPath) : Join(WhichPath[i], name) \in files
    THEN Join(WhichPath[CHOOSE i \in 1..Len(WhichPath) :
                  /\ Join(WhichPath[i], name) \in files
                  /\ \A j \in 1..(i - 1) : Join(WhichPath[j], name) \notin files], name)
    ELSE None

search_paths ==
    <<"/usr/bin", "/usr/local/bin", "/opt", "/usr/lib", "/usr/lib64", "/usr/share",
      "/usr/local/lib">>

\* the files called name below directory d (os.walk)
WalkMatches(files, d, name) == {f \in files : IsUnder(f, d) /\ f # d /\ Basename(f) = name}

RECURSIVE SearchCommon(_, _, _)
\* the loop over search_paths: the first direct hit or hit in a subdirectory, or None
SearchCommon(files, name, i) ==
    IF i > Len(search_paths) THEN None
    ELSE IF Join(search_paths[i], name) \in files THEN Join(search_paths[i], name)
    ELSE IF search_paths[i] \in files /\ WalkMatches(files, search_paths[i], name) # {}
         THEN CHOOSE f \in WalkMatches(files, search_paths[i], name) : TRUE
    ELSE SearchCommon(files, name, i + 1)

\* FilesystemManager.resolve_command, for a non-empty command
resolve_command(files, command) ==
    IF IsAbs(command[1]) THEN command
    ELSE IF Which(files, command[1]) # None
         THEN <<Which(files, command[1])>> \o Tail(command)
    ELSE IF SearchCommon(files, command[1], 1) # None
         THEN <<SearchCommon(files, command[1], 1)>> \o Tail(command)
    ELSE command

essential_paths ==
    << <<"/proc", "/proc", TRUE>>, <<"/sys", "/sys", FALSE>>,
       <<"/usr", "/usr", FALSE>>, <<"/bin", "/bin", FALSE>>,
       <<"/sbin", "/sbin", FALSE>>, <<"/lib", "/lib", FALSE>>,
       <<"/lib64", "/lib64", FALSE>>, <<"/etc", "/etc", FALSE>>,
       <<"/opt", "/opt", FALSE>>, <<"/var", "/var", FALSE>>,
       <<Home, Home, TRUE>> >>

device_nodes == <<"/dev/null", "/dev/zero", "/dev/random", "/dev/urandom">>

extra_paths ==
    <<"/usr/local/bin", "/usr/local/sbin", "/usr/local/lib", "/usr/local/lib64",
      "/usr/local/share", "/usr/lib/mozilla", "/usr/lib/firefox", "/usr/lib/chromium",
      "/run", "/run/dbus", "/run/user",
      "/usr/share/fonts", "/usr/share/icons", "/usr/share/themes", "/var/cache/fontconfig",
      "/usr/share/applications", "/usr/share/mime", "/usr/share/X11", "/usr/share/glib-2.0">>

user_config_paths ==
    <<"~/.config", "~/.local/share", "~/.cache", "~/.mozilla", "~/.pki", "~/.chrome",
      "~/.config/google-chrome">>

app_dirs ==
    <<".config", ".cache", ".local/share", ".mozilla", ".pki", ".chrome",
      ".config/google-chrome", "Downloads", "Documents">>

overlay_dirs == <<".config", ".cache", ".local/share">>

PathEnv == "/usr/local/sbin:/usr/local/bin:/usr/sbin:/usr/bin:/sbin:/bin"

RECURSIVE EssentialArgs(_, _)
\* the loop over essential_paths in setup()
EssentialArgs(files, i) ==
    IF i > Len(essential_paths) THEN <<>>
    ELSE (IF essential_paths[i][1] \in files
          THEN <<(IF essential_paths[i][3] THEN "--bind" ELSE "--ro-bind"),
                 essential_paths[i][1], essential_paths[i][2]>>
          ELSE <<>>) \o EssentialArgs(files, i + 1)

\* the fixed /dev and /proc binds of setup()
DevArgs ==
    <<"--dev-bind", "/dev", "/dev", "--dev-bind", "/dev/shm", "/dev/shm",
      "--bind", "/proc/self", "/proc/self", "--bind", "/proc/sys", "/proc/sys",
      "--bind", "/proc/sysrq-trigger", "/proc/sysrq-trigger",
      "--bind", "/proc/irq", "/proc/irq", "--bind", "/proc/bus", "/proc/bus">>

RECURSIVE ExistingBinds(_, _, _, _)
\* a loop that binds every existing path of a list onto itself
ExistingBinds(files, flag, paths, i) ==
    IF i > Len(paths) THEN <<>>
    ELSE (IF paths[i] \in files THEN <<flag, paths[i], paths[i]>> ELSE <<>>)
         \o ExistingBinds(files, flag, paths, i + 1)

RECURSIVE UserConfigLoop(_, _, _)
\* the loop over user_config_paths in setup(): the temporary overlays it creates
\* below temp_dirs[0] and the binds it emits
UserConfigLoop(files, temp0, i) ==
    IF i > Len(user_config_paths) THEN [args |-> <<>>, files |-> files]
    ELSE LET full_path == Expanduser(user_config_paths[i])
             temp_path == Join(temp0, Basename(user_config_paths[i]))
         IN  IF full_path \in files
             THEN LET rest == UserConfigLoop(files \cup WithParents(temp_path), temp0, i + 1)
                  IN  [args |-> <<"--bind", temp_path, full_path>> \o rest.args,
                       files |-> rest.files]
             ELSE UserConfigLoop(files, temp0, i + 1)

\* FilesystemManager._setup_dbus
setup_dbus(files) ==
    (IF "/run/dbus" \in files THEN <<"--bind", "/run/dbus", "/run/dbus">> ELSE <<>>)
    \o (IF Join(UserRuntimeDir, "bus") \in files
        THEN <<"--bind", Join(UserRuntimeDir, "bus"), Join(UserRuntimeDir, "bus")>>
        ELSE <<>>)

\* FilesystemManager._setup_xdg_runtime
setup_xdg_runtime(files) ==
    (IF UserRuntimeDir \in files THEN <<"--bind", UserRuntimeDir, UserRuntimeDir>> ELSE <<>>)
    \o <<"--symlink", "/proc/self/fd", "/dev/fd",
         "--symlink", "/proc/self/fd/0", "/dev/stdin",
         "--symlink", "/proc/self/fd/1", "/dev/stdout",
         "--symlink", "/proc/self/fd/2", "/dev/stderr">>

RECURSIVE OverlayBinds(_, _, _)
\* one bind of base/<dir> onto ~/<dir> for every directory of a list
OverlayBinds(base, dirs, i) ==
    IF i > Len(dirs) THEN <<>>
    ELSE <<"--bind", Join(base, dirs[i]), Join(Home, dirs[i])>>
         \o OverlayBinds(base, dirs, i + 1)

RECURSIVE OverlayBindsOfNew(_, _, _, _)
\* the binds of OverlayBinds for the directories that do not exist yet
OverlayBindsOfNew(files, base, dirs, i) ==
    IF i > Len(dirs) THEN <<>>
    ELSE (IF Join(base, dirs[i]) \in files THEN <<>>
          ELSE <<"--bind", Join(base, dirs[i]), Join(Home, dirs[i])>>)
         \o OverlayBindsOfNew(files, base, dirs, i + 1)

\* an overlay setup that binds only the persist subdirectories it has just created
setup_overlay_new_only(files, config, temp_dirs, fresh) ==
    IF config.persist_dir # None
    THEN [args |-> OverlayBindsOfNew(files, config.persist_dir, app_dirs, 1),
          files |-> files \cup UNION {WithParents(Join(config.persist_dir, app_dirs[i])) :
                                          i \in 1..Len(app_dirs)},
          temp_dirs |-> temp_dirs]
    ELSE [args |-> OverlayBinds(fresh, overlay_dirs, 1),
          files |-> files \cup {fresh}
                    \cup UNION {WithParents(Join(fresh, overlay_dirs[i])) :
                                    i \in 1..Len(overlay_dirs)},
          temp_dirs |-> Append(temp_dirs, fresh)]

\* FilesystemManager._setup_overlay; fresh is the directory mkdtemp() returns
\* when no persist directory was given
setup_overlay(files, config, temp_dirs, fresh) ==
    IF config.persist_dir # None
    THEN [args |-> OverlayBinds(config.persist_dir, app_dirs, 1),
          files |-> files \cup UNION {WithParents(Join(config.persist_dir, app_dirs[i])) :
                                          i \in 1..Len(app_dirs)},
          temp_dirs |-> temp_dirs]
    ELSE [args |-> OverlayBinds(fresh, overlay_dirs, 1),
          files |-> files \cup {fresh}
                    \cup UNION {WithParents(Join(fresh, overlay_dirs[i])) :
                                    i \in 1..Len(overlay_dirs)},
          temp_dirs |-> Append(temp_dirs, fresh)]

\* FilesystemManager._create_temp_dirs; fresh is the directory mkdtemp() returns
\* when no temporary directory was given
create_temp_dirs(files, config, fresh) ==
    IF config.tmp_dir # None
    THEN [temp_dirs |-> <<config.tmp_dir>>, files |-> files]
    ELSE [temp_dirs |-> <<fresh>>, files |-> files \cup {fresh}]

\* does setup() call mkdtemp() in _create_temp_dirs / in _setup_overlay
NeedsTemp0(config) == config.tmp_dir = None
NeedsTemp1(config) == config.overlay_enabled /\ config.persist_dir = None

\* FilesystemManager.setup: the arguments, the filesystem and self.temp_dirs it
\* leaves; fresh0 and fresh1 are the results of its mkdtemp() calls
setup(files, config, fresh0, fresh1) ==
    LET created == create_temp_dirs(files, config, fresh0)
        user == UserConfigLoop(created.files, created.temp_dirs[1], 1)
        overlay == IF config.overlay_enabled
                   THEN setup_overlay(user.files, config, created.temp_dirs, fresh1)
                   ELSE [args |-> <<>>, files |-> user.files,
                         temp_dirs |-> created.temp_dirs]
    IN  [args |-> EssentialArgs(created.files, 1)
                  \o DevArgs
                  \o ExistingBinds(created.files, "--dev-bind", device_nodes, 1)
                  \o ExistingBinds(created.files, "--ro-bind", extra_paths, 1)
                  \o user.args
                  \o setup_dbus(user.files)
                  \o setup_xdg_runtime(user.files)
                  \o overlay.args
                  \o (IF config.tmp_dir # None
                      THEN <<"--bind", config.tmp_dir, "/tmp">>
                      ELSE <<"--tmpfs", "/tmp">>)
                  \o <<"--setenv", "PATH", PathEnv>>,
         files |-> overlay.files,
         temp_dirs |-> overlay.temp_dirs]

\* a cleanup whose loop ends after the first entry of self.temp_dirs
CleanupFirstOnly(files, temp_dirs, i) ==
    IF i > Len(temp_dirs) THEN files ELSE RmTree(files, temp_dirs[i])

RECURSIVE CleanupLoop(_, _, _)
\* FilesystemManager.cleanup: the filesystem after rmtree of every entry of
\* self.temp_dirs (an entry that does not exist makes rmtree raise, which is logged)
CleanupLoop(files, temp_dirs, i) ==
    IF i > Len(temp_dirs) THEN files
    ELSE CleanupLoop(RmTree(files, temp_dirs[i]), temp_dirs, i + 1)

\* what cleanup() logs for one operation: a debug or info message when it
\* returned, a warning when it raised
LogRecord(op, target, ok) == [op |-> op, target |-> target, ok |-> ok]

RECURSIVE CleanupStopsAtFailure(_, _, _, _)
\* a cleanup whose try statement is around the loop: the first rmtree that
\* raises ends the loop
CleanupStopsAtFailure(files, temp_dirs, failing, i) ==
    IF i > Len(temp_dirs) THEN [files |-> files, log |-> <<>>]
    ELSE IF temp_dirs[i] \in files /\ temp_dirs[i] \notin failing
    THEN LET rest == CleanupStopsAtFailure(RmTree(files, temp_dirs[i]), temp_dirs,
                                           failing, i + 1)
         IN  [files |-> rest.files,
              log |-> <<LogRecord("rmtree", temp_dirs[i], TRUE)>> \o rest.log]
    ELSE [files |-> files, log |-> <<LogRecord("rmtree", temp_dirs[i], FALSE)>>]

RECURSIVE CleanupWithFailures(_, _, _, _)
\* FilesystemManager.cleanup when rmtree raises for the directories in failing
\* (and for a directory that does not exist): the filesystem it leaves and
\* what it logs. An rmtree that raises is taken to have removed nothing.
CleanupWithFailures(files, temp_dirs, failing, i) ==
    IF i > Len(temp_dirs) THEN [files |-> files, log |-> <<>>]
    ELSE IF temp_dirs[i] \in files /\ temp_dirs[i] \notin failing
    THEN LET rest == CleanupWithFailures(RmTree(files, temp_dirs[i]), temp_dirs,
                                         failing, i + 1)
         IN  [files |-> rest.files,
              log |-> <<LogRecord("rmtree", temp_dirs[i], TRUE)>> \o rest.log]
    ELSE LET rest == CleanupWithFailures(files, temp_dirs, failing, i + 1)
         IN  [files |-> rest.files,
              log |-> <<LogRecord("rmtree", temp_dirs[i], FALSE)>> \o rest.log]

(***************************************************************************)
(* display_manager.py                                                      *)
(***************************************************************************)
\* DisplayManager._detect_display_server
detect_display_server(env) ==
    IF env.WAYLAND_DISPLAY # "" THEN "WAYLAND"
    ELSE IF env.DISPLAY # "" THEN "X11"
    ELSE "UNKNOWN"

\* DisplayManager.get_display_args
get_display_args(files, env, display_server) ==
    IF display_server = "X11"
    THEN IF "/tmp/.X11-unix" \in files
         THEN <<"--bind", "/tmp/.X11-unix", "/tmp/.X11-unix", "--setenv", "DISPLAY", env.DISPLAY>>
              \o (IF Join(Home, ".Xauthority") \in files
                  THEN <<"--ro-bind", Join(Home, ".Xauthority"), Join(Home, ".Xauthority")>>
                  ELSE <<>>)
         ELSE <<>>
    ELSE IF display_server = "WAYLAND"
    THEN IF Join(env.XDG_RUNTIME_DIR, env.WAYLAND_DISPLAY) \in files
         THEN <<"--bind", Join(env.XDG_RUNTIME_DIR, env.WAYLAND_DISPLAY),
                Join(env.XDG_RUNTIME_DIR, env.WAYLAND_DISPLAY),
                "--setenv", "WAYLAND_DISPLAY", env.WAYLAND_DISPLAY,
                "--setenv", "XDG_RUNTIME_DIR", env.XDG_RUNTIME_DIR>>
         ELSE <<>>
    ELSE <<>>

(***************************************************************************)
(* security_manager.py                                                     *)
(***************************************************************************)
\* SecurityManager._get_browser_security_args
get_browser_security_args(files) ==
    <<"--share-net", "--unshare-user-try", "--new-session", "--cap-add", "ALL",
      "--dev-bind", "/dev/shm", "/dev/shm", "--bind", "/tmp", "/tmp",
      "--bind", "/run", "/run">>
    \o (IF "/usr/share/chromium/seccomp-filter.bpf" \in files
        THEN <<"--seccomp", "9", "/usr/share/chromium/seccomp-filter.bpf">>
        ELSE <<>>)

\* SecurityManager._get_default_security_args
get_default_security_args(isolation_level) ==
    <<"--hostname", "isolated">>
    \o (IF isolation_level = "STRICT"
        THEN <<"--unshare-net", "--unshare-cgroup-try", "--unshare-user-try",
               "--cap-drop", "ALL">>
        ELSE <<>>)

\* os.getenv(key, default)
Getenv(value, default) == IF value # "" THEN value ELSE default

\* the --setenv arguments for one entry of env_vars, skipped when the value is empty
SetenvArg(key, value) == IF value # "" THEN <<"--setenv", key, value>> ELSE <<>>

\* SecurityManager.get_security_args
get_security_args(files, env, isolation_level, profile) ==
    <<"--unshare-pid", "--unshare-ipc", "--unshare-uts", "--new-session",
      "--die-with-parent">>
    \o (IF profile = "BROWSER"
        THEN get_browser_security_args(files)
        ELSE get_default_security_args(isolation_level))
    \o SetenvArg("PATH", PathEnv)
    \o SetenvArg("HOME", Home)
    \o SetenvArg("USER", Getenv(env.USER, ""))
    \o SetenvArg("LANG", Getenv(env.LANG, "C.UTF-8"))
    \o SetenvArg("TERM", Getenv(env.TERM, "xterm-256color"))

\* a validation that accepts every configuration
validate_anything(isolation_level, profile) == TRUE

\* SecurityManager.validate_security_config
validate_security_config(isolation_level, profile) ==
    IF isolation_level \notin IsolationLevel THEN FALSE
    ELSE IF profile # None /\ profile \notin ApplicationProfile THEN FALSE
    ELSE TRUE

(***************************************************************************)
(* enhanced_security_manager.py                                            *)
(***************************************************************************)
\* EnhancedSecurityManager.validate_security_config, for self.profile given as
\* a sequence that is empty when there is no profile
enhanced_validate_security_config(profile) ==
    IF profile = <<>> THEN TRUE
    ELSE IF \E i \in 1..Len(profile[1].capabilities) :
                ~StartsWith(profile[1].capabilities[i], "CAP_")
         THEN FALSE
    ELSE IF \E i \in 1..Len(profile[1].network_ports) :
                ~(0 <= profile[1].network_ports[i] /\ profile[1].network_ports[i] <= 65535)
         THEN FALSE
    ELSE TRUE

(***************************************************************************)
(* resource_manager.py                                                     *)
(***************************************************************************)
Digits == <<"0", "1", "2", "3", "4", "5", "6", "7", "8", "9">>

IsDigit(c) == \E i \in 1..Len(Digits) : Digits[i] = c
DigitValue(c) == (CHOOSE i \in 1..Len(Digits) : Digits[i] = c) - 1

\* a natural number as the sequence of its decimal digits, least significant first
RECURSIVE CarryDigits(_)
CarryDigits(c) == IF c = 0 THEN <<>> ELSE <<c % 10>> \o CarryDigits(c \div 10)

RECURSIVE MulDigits(_, _, _)
\* the digits of ds * m + carry
MulDigits(ds, m, carry) ==
    IF ds = <<>> THEN CarryDigits(carry)
    ELSE <<(Head(ds) * m + carry) % 10>>
         \o MulDigits(Tail(ds), m, (Head(ds) * m + carry) \div 10)

RECURSIVE Times1024(_, _)
\* the digits of ds * 1024^k
Times1024(ds, k) == IF k = 0 THEN ds ELSE Times1024(MulDigits(ds, 1024, 0), k - 1)

RECURSIVE DigitsOfString(_)
\* the digits of a string of decimal digits, least significant first
DigitsOfString(s) ==
    IF Len(s) = 0 THEN <<>>
    ELSE Append(DigitsOfString(SubSeq(s, 2, Len(s))), DigitValue(SubSeq(s, 1, 1)))

RECURSIVE StripZeros(_)
\* a digit sequence without its most significant zeros
StripZeros(ds) ==
    IF ds = <<>> THEN <<>>
    ELSE IF ds[Len(ds)] = 0 THEN StripZeros(SubSeq(ds, 1, Len(ds) - 1))
    ELSE ds

RECURSIVE RenderDigits(_)
RenderDigits(ds) ==
    IF ds = <<>> THEN "" ELSE RenderDigits(Tail(ds)) \o Digits[Head(ds) + 1]

\* str(int): the decimal numeral without leading zeros
StringOfDigits(ds) ==
    IF StripZeros(ds) = <<>> THEN "0" ELSE RenderDigits(StripZeros(ds))

RECURSIVE Strip(_)
\* str.strip
Strip(s) ==
    IF Len(s) = 0 THEN s
    ELSE IF SubSeq(s, 1, 1) = " " THEN Strip(SubSeq(s, 2, Len(s)))
    ELSE IF SubSeq(s, Len(s), Len(s)) = " " THEN Strip(SubSeq(s, 1, Len(s) - 1))
    ELSE s

\* the units table of _parse_size: the power of 1024 of each unit
UnitChars == <<"B", "K", "M", "G", "T">>
IsUnit(c) == \E i \in 1..Len(UnitChars) : UnitChars[i] = c
UnitPower(c) == (CHOOSE i \in 1..Len(UnitChars) : UnitChars[i] = c) - 1

\* the position of the decimal point of a numeral, 0 when it has none
PointPosition(s) ==
    IF \E i \in 1..Len(s) : SubSeq(s, i, i) = "."
    THEN CHOOSE i \in 1..Len(s) : SubSeq(s, i, i) = "."
    ELSE 0

\* the numerals float() accepts here: digits with at most one decimal point
\* and at least one digit
IsDecimal(s) ==
    /\ \E i \in 1..Len(s) : IsDigit(SubSeq(s, i, i))
    /\ \A i \in 1..Len(s) : IsDigit(SubSeq(s, i, i)) \/ i = PointPosition(s)

\* float() ignores blanks around the numeral
IsFloatLiteral(s) == IsDecimal(Strip(s))

\* the numeral without its decimal point, and the number of digits after the point
NumeralDigits(s) ==
    IF PointPosition(s) = 0 THEN s
    ELSE SubSeq(s, 1, PointPosition(s) - 1) \o SubSeq(s, PointPosition(s) + 1, Len(s))
FractionDigits(s) == IF PointPosition(s) = 0 THEN 0 ELSE Len(s) - PointPosition(s)

\* ResourceManager._parse_size: the byte count as str() prints it, or the exception raised
parse_size(size_str) ==
    LET size == Strip(size_str)
        unit == UpperChar(SubSeq(size, Len(size), Len(size)))
        number == Strip(SubSeq(size, 1, Len(size) - 1))
        scaled == Times1024(DigitsOfString(NumeralDigits(number)), UnitPower(unit))
    IN  IF Len(size) = 0 THEN [kind |-> "IndexError", value |-> ""]
        ELSE IF ~IsUnit(unit) THEN [kind |-> "ValueError", value |-> ""]
        ELSE IF ~IsFloatLiteral(number) THEN [kind |-> "ValueError", value |-> ""]
        ELSE [kind |-> "ok",
              value |-> StringOfDigits(SubSeq(scaled, FractionDigits(number) + 1, Len(scaled)))]

\* ResourceManager._validate_cgroup_support: self.cgroup_version, 0 when the
\* attribute is never set
validate_cgroup_support(cgroup) ==
    IF cgroup = "none" THEN 0 ELSE IF cgroup = "v2" THEN 2 ELSE 1

\* ResourceManager._setup_cgroup, once the size strings are known to parse
setup_cgroup(limits, cgroup_version) ==
    IF cgroup_version = 2
    THEN (IF limits.cpu_limit # 0
          THEN <<"--bind-data", ToString(limits.cpu_limit), "/sys/fs/cgroup/cpu.max">>
          ELSE <<>>)
         \o (IF limits.memory_limit # ""
             THEN <<"--bind-data", parse_size(limits.memory_limit).value,
                    "/sys/fs/cgroup/memory.max">>
             ELSE <<>>)
         \o (IF limits.io_weight # 0
             THEN <<"--bind-data", ToString(limits.io_weight), "/sys/fs/cgroup/io.weight">>
             ELSE <<>>)
    ELSE (IF limits.cpu_limit # 0
          THEN <<"--bind-data", ToString(limits.cpu_limit * 1000),
                 "/sys/fs/cgroup/cpu/cpu.cfs_quota_us">>
          ELSE <<>>)
         \o (IF limits.memory_limit # ""
             THEN <<"--bind-data", parse_size(limits.memory_limit).value,
                    "/sys/fs/cgroup/memory/memory.limit_in_bytes">>
             ELSE <<>>)

\* ResourceManager.get_resource_args: the arguments, or the exception that leaves it
get_resource_args(limits, cgroup_version) ==
    LET fsize == IF limits.max_file_size # "" THEN parse_size(limits.max_file_size)
                 ELSE [kind |-> "ok", value |-> ""]
        mem == IF limits.memory_limit # "" THEN parse_size(limits.memory_limit)
               ELSE [kind |-> "ok", value |-> ""]
    IN  IF fsize.kind # "ok" THEN [kind |-> fsize.kind, args |-> <<>>]
        ELSE IF mem.kind # "ok" THEN [kind |-> mem.kind, args |-> <<>>]
        ELSE IF cgroup_version = 0 THEN [kind |-> "AttributeError", args |-> <<>>]
        ELSE [kind |-> "ok",
              args |-> (IF limits.max_processes # 0
                        THEN <<"--rlimit", "nproc=" \o ToString(limits.max_processes)>>
                        ELSE <<>>)
                       \o (IF limits.max_files # 0
                           THEN <<"--rlimit", "nofile=" \o ToString(limits.max_files)>>
                           ELSE <<>>)
                       \o (IF limits.max_file_size # ""
                           THEN <<"--rlimit", "fsize=" \o fsize.value>>
                           ELSE <<>>)
                       \o (IF limits.memory_limit # ""
                           THEN <<"--rlimit", "as=" \o mem.value>>
                           ELSE <<>>)
                       \o setup_cgroup(limits, cgroup_version)]

(***************************************************************************)
(* config/profiles.py                                                      *)
(***************************************************************************)
RECURSIVE LoadFiles(_, _, _)
\* the loop of _load_profiles over the files of one directory: a file that
\* fails sends control to the except clause, whose call of logging.error
\* raises NameError because the module does not import logging
LoadFiles(files, i, loaded) ==
    IF i > Len(files) THEN [kind |-> "ok", profiles |-> loaded]
    ELSE IF files[i].wellformed THEN LoadFiles(files, i + 1, Append(loaded, files[i]))
    ELSE [kind |-> "NameError", profiles |-> loaded]

RECURSIVE load_profiles(_, _, _)
\* ProfileManager._load_profiles: the documents stored in self.profiles, in
\* the order they were stored, or the exception that leaves the method
load_profiles(config_paths, i, loaded) ==
    IF i > Len(config_paths) THEN [kind |-> "ok", profiles |-> loaded]
    ELSE IF ~config_paths[i].exists THEN load_profiles(config_paths, i + 1, loaded)
    ELSE IF LoadFiles(config_paths[i].files, 1, loaded).kind # "ok"
         THEN LoadFiles(config_paths[i].files, 1, loaded)
    ELSE load_profiles(config_paths, i + 1, LoadFiles(config_paths[i].files, 1, loaded).profiles)

\* ProfileManager.get_profile: the document the dictionary holds under this name
\* (the last one loaded), as a sequence that is empty when there is none
get_profile(catalog, name) ==
    IF \E i \in 1..Len(catalog) : catalog[i].name = name
    THEN <<catalog[Max({i \in 1..Len(catalog) : catalog[i].name = name})]>>
    ELSE <<>>

\* str() of config.profile: an enum member prints as ApplicationProfile.NAME
ProfileStr(profile) ==
    IF profile \in ApplicationProfile THEN "ApplicationProfile." \o profile ELSE profile

(***************************************************************************)
(* The state of one invocation of the program.                             *)
(***************************************************************************)
VARIABLES
    request,         \* the arguments IsolationConfig is constructed with
    host,            \* the host the program runs on
    fs,              \* the paths that exist
    pc,              \* where the program is
    app_command,     \* config.app_command
    display_server,  \* DisplayManager.display_server
    limits,          \* ResourceManager.limits
    cgroup_version,  \* ResourceManager.cgroup_version, 0 when unset
    temp_dirs,       \* FilesystemManager.temp_dirs
    args,            \* bwrap_args under construction
    plan,            \* the argument list run() passes to _execute_bwrap, <<>> before
    child,           \* the bwrap child: "none", "running" or "exited"
    exit_code,       \* <<status>> once process.wait() has returned
    interrupted,     \* KeyboardInterrupt was raised in process.wait()
    error,           \* the exception that ended run()'s try block, or None
    result,          \* <<status>> once run() has a return value
    made,            \* the directories mkdtemp() has created in this run
    marks,           \* the length of args after each stage of _prepare_bwrap_args
    snapshot,        \* the paths that existed when run() began
    run,             \* the number of this run of the request
    prev_plan,       \* the plan the previous run compiled
    prev_snapshot,   \* the paths that existed when the previous run() began
    profiles,        \* ProfileManager.profiles, in the order the documents were loaded
    cleanups,        \* the number of times this run() has called cleanup()
    log,             \* what cleanup() has logged: one record for each operation
    argument,        \* the argument of a call of detect_profile or _parse_size
    returned,        \* <<value>> once that call has returned
    peer             \* a second invocation of the program on the same host

vars ==
    <<request, host, fs, pc, app_command, display_server, limits, cgroup_version,
      temp_dirs, args, plan, child, exit_code, interrupted, error, result, made,
      marks, snapshot, run, prev_plan, prev_snapshot, profiles, cleanups, log,
      argument, returned, peer>>

requestVars == <<request, host, run, prev_plan, prev_snapshot>>
managerVars == <<display_server, limits, cgroup_version, profiles>>
childVars == <<child, exit_code, interrupted>>
callVars == <<argument, returned>>

\* IsolationConfig with every optional field at its default
DefaultRequest ==
    [app_command |-> <<"echo", "hi">>, persist_dir |-> None, tmp_dir |-> None,
     network_enabled |-> TRUE, gui_enabled |-> TRUE, isolation_level |-> "STANDARD",
     overlay_enabled |-> TRUE, profile |-> None, resource_limits |-> NoLimits]

\* no second invocation of the program
NoPeer == [pc |-> "Absent", request |-> DefaultRequest, temp_dirs |-> <<>>, args |-> <<>>]

\* nothing has been constructed or called yet
Unconstructed ==
    /\ fs = host.paths
    /\ app_command = <<>>
    /\ display_server = "UNKNOWN"
    /\ limits = NoLimits
    /\ cgroup_version = 0
    /\ profiles = <<>>
    /\ temp_dirs = <<>>
    /\ args = <<>>
    /\ plan = <<>>
    /\ child = "none"
    /\ exit_code = <<>>
    /\ interrupted = FALSE
    /\ error = None
    /\ result = <<>>
    /\ made = {}
    /\ marks = <<>>
    /\ snapshot = {}
    /\ cleanups = 0
    /\ log = <<>>
    /\ run = 1
    /\ prev_plan = <<>>
    /\ prev_snapshot = {}
    /\ returned = <<>>

Init ==
    /\ request \in Requests
    /\ host \in Hosts
    /\ pc = "Start"
    /\ Unconstructed
    /\ argument = None
    /\ peer = NoPeer

\* a __post_init__ that creates the persist directory before it looks at the command
PostInitMkdirFirst ==
    /\ pc = "Start"
    /\ fs' = IF request.persist_dir # None
             THEN fs \cup WithParents(request.persist_dir)
             ELSE fs
    /\ IF request.app_command = <<>>
       THEN /\ pc' = "ConfigError"
            /\ error' = "ValueError"
            /\ UNCHANGED app_command
       ELSE /\ pc' = "Configured"
            /\ app_command' = request.app_command
            /\ UNCHANGED error
    /\ UNCHANGED <<requestVars, callVars, peer, cleanups, log, managerVars, childVars, temp_dirs,
                   args, plan, result, made, marks, snapshot>>

\* IsolationConfig.__post_init__
PostInit ==
    /\ pc = "Start"
    /\ IF request.app_command = <<>>
       THEN /\ pc' = "ConfigError"
            /\ error' = "ValueError"
            /\ UNCHANGED <<fs, app_command>>
       ELSE /\ pc' = "Configured"
            /\ app_command' = request.app_command
            /\ fs' = IF request.persist_dir # None
                     THEN fs \cup WithParents(request.persist_dir)
                     ELSE fs
            /\ UNCHANGED error
    /\ UNCHANGED <<requestVars, callVars, peer, cleanups, log, managerVars, childVars, temp_dirs,
                   args, plan, result, made, marks>>
    /\ UNCHANGED snapshot

\* the limits ApplicationIsolator.__init__ hands to ResourceManager
ProfileLimits(catalog, profile) ==
    IF profile # None /\ get_profile(catalog, ProfileStr(profile)) # <<>>
    THEN get_profile(catalog, ProfileStr(profile))[1].resource_limits
    ELSE NoLimits

\* ApplicationIsolator.__init__: the managers are constructed in turn; an
\* exception of ProfileManager() leaves the constructor
NewIsolator ==
    /\ pc = "Configured"
    /\ display_server' = detect_display_server(host.env)
    /\ profiles' = load_profiles(host.catalog, 1, <<>>).profiles
    /\ temp_dirs' = <<>>
    /\ IF load_profiles(host.catalog, 1, <<>>).kind = "ok"
       THEN /\ limits' = ProfileLimits(profiles', request.profile)
            /\ cgroup_version' = validate_cgroup_support(host.cgroup)
            /\ pc' = "Idle"
            /\ UNCHANGED error
       ELSE /\ error' = load_profiles(host.catalog, 1, <<>>).kind
            /\ pc' = "InitError"
            /\ UNCHANGED <<limits, cgroup_version>>
    /\ UNCHANGED <<requestVars, callVars, peer, cleanups, log, childVars, fs, app_command, args,
                   plan, result, made, marks, snapshot>>

\* an exception that is recorded while run() goes on to execute what it has
RaiseAndContinue(exception) ==
    /\ error' = exception
    /\ result' = result
    /\ pc' = "Compiled"

\* an exception leaves the try block of run(): the except clause sets the status
Raise(exception) ==
    /\ error' = exception
    /\ result' = <<1>>
    /\ pc' = "Finally"

\* run(): resolve_command
RunResolve ==
    /\ pc = "Idle"
    /\ snapshot' = fs
    /\ app_command' = resolve_command(fs, app_command)
    /\ pc' = "Resolved"
    /\ UNCHANGED <<requestVars, callVars, peer, cleanups, log, managerVars, childVars, fs,
                   temp_dirs, args, plan, error, result, made, marks>>

\* _prepare_bwrap_args: the validation of the security configuration
RunValidate ==
    /\ pc = "Resolved"
    /\ IF validate_security_config(request.isolation_level, request.profile)
       THEN /\ args' = <<"bwrap">>
            /\ pc' = "Validated"
            /\ UNCHANGED <<error, result>>
       ELSE /\ Raise("NameError")
            /\ UNCHANGED args
    /\ UNCHANGED <<requestVars, callVars, peer, cleanups, log, managerVars, childVars, fs,
                   app_command, temp_dirs, plan, made, marks>>
    /\ UNCHANGED snapshot

\* the directories mkdtemp() may return for the two calls setup() can make
FreshPairs(files, config) ==
    {pair \in (TempNames \cup {None}) \X (TempNames \cup {None}) :
        /\ IF NeedsTemp0(config) THEN pair[1] \in TempNames \ files ELSE pair[1] = None
        /\ IF NeedsTemp1(config) THEN pair[2] \in TempNames \ (files \cup {pair[1]})
                                 ELSE pair[2] = None}

\* _prepare_bwrap_args: filesystem_manager.setup()
RunSetup ==
    /\ pc = "Validated"
    /\ \E pair \in FreshPairs(fs, request) :
          /\ args' = args \o setup(fs, request, pair[1], pair[2]).args
          /\ fs' = setup(fs, request, pair[1], pair[2]).files
          /\ temp_dirs' = setup(fs, request, pair[1], pair[2]).temp_dirs
          /\ made' = {pair[1], pair[2]} \ {None}
    /\ marks' = <<Len(args')>>
    /\ pc' = "MountsPlanned"
    /\ UNCHANGED <<requestVars, callVars, peer, cleanups, log, managerVars, childVars,
                   app_command, plan, error, result>>
    /\ UNCHANGED snapshot

\* _prepare_bwrap_args: display_manager.get_display_args() when the GUI is enabled
RunDisplay ==
    /\ pc = "MountsPlanned"
    /\ args' = args \o (IF request.gui_enabled
                        THEN get_display_args(fs, host.env, display_server)
                        ELSE <<>>)
    /\ marks' = Append(marks, Len(args'))
    /\ pc' = "DisplayPlanned"
    /\ UNCHANGED <<requestVars, callVars, peer, cleanups, log, managerVars, childVars, fs,
                   app_command, temp_dirs, plan, error, result, made>>
    /\ UNCHANGED snapshot

\* _prepare_bwrap_args: security_manager.get_security_args()
RunSecurity ==
    /\ pc = "DisplayPlanned"
    /\ args' = args \o get_security_args(fs, host.env, request.isolation_level,
                                         request.profile)
    /\ marks' = Append(marks, Len(args'))
    /\ pc' = "SecurityPlanned"
    /\ UNCHANGED <<requestVars, callVars, peer, cleanups, log, managerVars, childVars, fs,
                   app_command, temp_dirs, plan, error, result, made>>
    /\ UNCHANGED snapshot

\* _prepare_bwrap_args: resource_manager.get_resource_args()
RunResources ==
    /\ pc = "SecurityPlanned"
    /\ IF get_resource_args(limits, cgroup_version).kind = "ok"
       THEN /\ args' = args \o get_resource_args(limits, cgroup_version).args
            /\ marks' = Append(marks, Len(args'))
            /\ pc' = "ResourcesPlanned"
            /\ UNCHANGED <<error, result>>
       ELSE /\ Raise(get_resource_args(limits, cgroup_version).kind)
            /\ UNCHANGED <<args, marks>>
    /\ UNCHANGED <<requestVars, callVars, peer, cleanups, log, managerVars, childVars, fs,
                   app_command, temp_dirs, plan, made>>
    /\ UNCHANGED snapshot

\* the environment run() adds for the browser profile
BrowserEnv ==
    <<"--setenv", "CHROME_SANDBOX", "1", "--setenv", "CHROME_WRAPPER", "1",
      "--setenv", "CHROME_DISABLE_SETUID_SANDBOX", "1">>

\* _prepare_bwrap_args appends the command and returns; run() extends the
\* arguments for the browser profile
RunCommand ==
    /\ pc = "ResourcesPlanned"
    /\ args' = args \o app_command
                    \o (IF request.profile = "BROWSER" THEN BrowserEnv ELSE <<>>)
    /\ marks' = Append(marks, Len(args) + Len(app_command))
    /\ plan' = args'
    /\ pc' = "Compiled"
    /\ UNCHANGED <<requestVars, callVars, peer, cleanups, log, managerVars, childVars, fs,
                   app_command, temp_dirs, error, result, made>>
    /\ UNCHANGED snapshot

\* _execute_bwrap: subprocess.Popen starts bwrap, or raises
Popen ==
    /\ pc = "Compiled"
    /\ \/ /\ child' = "running"
          /\ pc' = "Waiting"
          /\ UNCHANGED <<error, result>>
       \/ /\ error' = "OSError"
          /\ result' = <<1>>
          /\ pc' = "Finally"
          /\ UNCHANGED child
    /\ UNCHANGED <<requestVars, callVars, peer, cleanups, log, managerVars, fs, app_command,
                   temp_dirs, args, plan, exit_code, interrupted, made, marks>>
    /\ UNCHANGED snapshot

\* a wait whose caller reports success whatever the status of the child
WaitReturnsSuccess ==
    /\ pc = "Waiting"
    /\ \E status \in ExitCodes :
          /\ exit_code' = <<status>>
          /\ result' = <<0>>
    /\ child' = "exited"
    /\ pc' = "Finally"
    /\ UNCHANGED <<requestVars, callVars, peer, cleanups, log, managerVars, fs, app_command,
                   temp_dirs, args, plan, interrupted, error, made, marks, snapshot>>

\* _execute_bwrap: process.wait() returns the status of the child
WaitReturns ==
    /\ pc = "Waiting"
    /\ \E status \in ExitCodes :
          /\ exit_code' = <<status>>
          /\ result' = <<status>>
    /\ child' = "exited"
    /\ pc' = "Finally"
    /\ UNCHANGED <<requestVars, callVars, peer, cleanups, log, managerVars, fs, app_command,
                   temp_dirs, args, plan, interrupted, error, made, marks>>
    /\ UNCHANGED snapshot

\* an interrupt whose handler calls cleanup() itself before the finally clause does
InterruptCleansUp ==
    /\ pc = "Waiting"
    /\ interrupted' = TRUE
    /\ result' = <<130>>
    /\ fs' = CleanupLoop(fs, temp_dirs, 1)
    /\ log' = CleanupWithFailures(fs, temp_dirs, {}, 1).log
              \o <<LogRecord("monitor", "/proc/self/status", TRUE)>>
    /\ cleanups' = cleanups + 1
    /\ pc' = "Finally"
    /\ UNCHANGED <<requestVars, callVars, peer, managerVars, app_command, temp_dirs, args,
                   plan, child, exit_code, error, made, marks, snapshot>>

\* an interrupt handled like any other exception of _execute_bwrap
InterruptReturnsOne ==
    /\ pc = "Waiting"
    /\ interrupted' = TRUE
    /\ result' = <<1>>
    /\ pc' = "Finally"
    /\ UNCHANGED <<requestVars, callVars, peer, cleanups, log, managerVars, fs, app_command,
                   temp_dirs, args, plan, child, exit_code, error, made, marks, snapshot>>

\* _execute_bwrap: KeyboardInterrupt while waiting
Interrupt ==
    /\ pc = "Waiting"
    /\ interrupted' = TRUE
    /\ result' = <<130>>
    /\ pc' = "Finally"
    /\ UNCHANGED <<requestVars, callVars, peer, cleanups, log, managerVars, fs, app_command,
                   temp_dirs, args, plan, child, exit_code, error, made, marks>>
    /\ UNCHANGED snapshot

\* ApplicationIsolator.cleanup, the finally clause of run()
Cleanup ==
    /\ pc = "Finally"
    /\ fs' = CleanupLoop(fs, temp_dirs, 1)
    /\ log' = CleanupWithFailures(fs, temp_dirs, {}, 1).log
              \o <<LogRecord("monitor", "/proc/self/status", TRUE)>>
    /\ cleanups' = cleanups + 1
    /\ pc' = "Done"
    /\ UNCHANGED <<requestVars, callVars, peer, managerVars, childVars, app_command,
                   temp_dirs, args, plan, error, result, made, marks>>
    /\ UNCHANGED snapshot

\* the program is started again with the same request
Rerun ==
    /\ pc = "Done"
    /\ run < MaxRuns
    /\ run' = run + 1
    /\ prev_plan' = plan
    /\ prev_snapshot' = snapshot
    /\ snapshot' = {}
    /\ pc' = "Start"
    /\ app_command' = <<>>
    /\ display_server' = "UNKNOWN"
    /\ limits' = NoLimits
    /\ cgroup_version' = 0
    /\ temp_dirs' = <<>>
    /\ args' = <<>>
    /\ plan' = <<>>
    /\ child' = "none"
    /\ exit_code' = <<>>
    /\ interrupted' = FALSE
    /\ error' = None
    /\ result' = <<>>
    /\ made' = {}
    /\ marks' = <<>>
    /\ profiles' = <<>>
    /\ cleanups' = 0
    /\ log' = <<>>
    /\ UNCHANGED <<request, host, fs, callVars, peer>>

Next ==
    \/ PostInit
    \/ NewIsolator
    \/ RunResolve
    \/ RunValidate
    \/ RunSetup
    \/ RunDisplay
    \/ RunSecurity
    \/ RunResources
    \/ RunCommand
    \/ Popen
    \/ WaitReturns
    \/ Interrupt
    \/ Cleanup
    \/ Rerun

Spec == Init /\ [][Next]_vars

(***************************************************************************)
(* Calls of RequirementsManager.detect_profile on their own.               *)
(***************************************************************************)
\* the commands detect_profile is called with: a directory part and a name put
\* together from two pieces
CommandNames ==
    LET dirs == {"", "/usr/bin/", "/opt/chrome/"}
        pieces == {"", "firefox", "Chrome", "vlc", "OBS", "mp", "v", "code", "Idea",
                   "gimp", "Krita", "run", "-"}
    IN  {d \o a \o b : d \in dirs, a \in pieces, b \in pieces}

DetectInit ==
    /\ request = DefaultRequest
    /\ host \in Hosts
    /\ pc = "Detect"
    /\ Unconstructed
    /\ argument \in CommandNames
    /\ peer = NoPeer

\* a call of RequirementsManager.detect_profile
DetectProfile ==
    /\ pc = "Detect"
    /\ returned' = <<detect_profile(argument)>>
    /\ pc' = "Detected"
    /\ UNCHANGED <<requestVars, managerVars, childVars, argument, peer, cleanups, log, fs,
                   app_command, temp_dirs, args, plan, error, result, made, marks, snapshot>>

DetectNext == DetectProfile

DetectSpec == DetectInit /\ [][DetectNext]_vars

(***************************************************************************)
(* Calls of ResourceManager._parse_size on their own.                      *)
(***************************************************************************)
\* the strings _parse_size is called with: a numeral and a unit between blanks
SizeStrings ==
    LET numerals == {"", "0", "1", "2", "5", "12", "500", "1.5", "0.1", ".5", "1.", ".",
                     "1.2.3", "5 "}
        units == {"", "B", "K", "M", "G", "T", "b", "k", "m", "g", "t", "X"}
        blanks == {"", " "}
    IN  {l \o n \o u \o r : l \in blanks, n \in numerals, u \in units, r \in blanks}

ParseInit ==
    /\ request = DefaultRequest
    /\ host \in Hosts
    /\ pc = "Parse"
    /\ Unconstructed
    /\ argument \in SizeStrings
    /\ peer = NoPeer

\* a call of ResourceManager._parse_size
ParseSize ==
    /\ pc = "Parse"
    /\ returned' = <<parse_size(argument)>>
    /\ pc' = "Parsed"
    /\ UNCHANGED <<requestVars, managerVars, childVars, argument, peer, cleanups, log, fs,
                   app_command, temp_dirs, args, plan, error, result, made, marks, snapshot>>

ParseNext == ParseSize

ParseSpec == ParseInit /\ [][ParseNext]_vars

(***************************************************************************)
(* run() with a KeyboardInterrupt at any point, not only in process.wait().*)
(***************************************************************************)
InterruptInit ==
    /\ request \in {[DefaultRequest EXCEPT !.tmp_dir = t, !.profile = p,
                                           !.isolation_level = l] :
                        t \in {None, "/data/scratch"}, p \in {None, "BROWSER"},
                        l \in {"STANDARD", "paranoid"}}
    /\ host \in Hosts
    /\ pc = "Start"
    /\ Unconstructed
    /\ argument = None
    /\ peer = NoPeer

\* KeyboardInterrupt while run() resolves the command or compiles the plan: it
\* is not an Exception, so the except clause of run() is passed over, the
\* finally clause runs and the interrupt leaves run()
InterruptCompile ==
    /\ pc \in {"Idle", "Resolved", "Validated", "MountsPlanned", "DisplayPlanned",
               "SecurityPlanned", "ResourcesPlanned"}
    /\ error' = "KeyboardInterrupt"
    /\ pc' = "Finally"
    /\ UNCHANGED <<requestVars, callVars, peer, cleanups, log, managerVars, childVars, fs,
                   app_command, temp_dirs, args, plan, result, made, marks, snapshot>>

\* KeyboardInterrupt inside subprocess.Popen, before the child exists: the
\* handler of _execute_bwrap returns 130
InterruptPopen ==
    /\ pc = "Compiled"
    /\ result' = <<130>>
    /\ pc' = "Finally"
    /\ UNCHANGED <<requestVars, callVars, peer, cleanups, log, managerVars, childVars, fs,
                   app_command, temp_dirs, args, plan, error, made, marks, snapshot>>

\* KeyboardInterrupt inside cleanup(): the loop of filesystem_manager.cleanup()
\* is left after n directories and the interrupt leaves run()
InterruptCleanup ==
    /\ pc = "Finally"
    /\ \E n \in 0..Len(temp_dirs) :
          /\ fs' = CleanupLoop(fs, SubSeq(temp_dirs, 1, n), 1)
          /\ log' = CleanupWithFailures(fs, SubSeq(temp_dirs, 1, n), {}, 1).log
    /\ cleanups' = cleanups + 1
    /\ error' = "KeyboardInterrupt"
    /\ result' = <<>>
    /\ pc' = "Done"
    /\ UNCHANGED <<requestVars, callVars, peer, managerVars, childVars, app_command,
                   temp_dirs, args, plan, made, marks, snapshot>>

\* the child ends on its own after the handler of _execute_bwrap has abandoned
\* the wait: nothing in run() or cleanup() signals it or waits for it again
ChildExits ==
    /\ pc \in {"Finally", "Done"}
    /\ child = "running"
    /\ interrupted
    /\ child' = "exited"
    /\ UNCHANGED <<requestVars, callVars, peer, cleanups, log, managerVars, fs, pc,
                   app_command, temp_dirs, args, plan, exit_code, interrupted, error,
                   result, made, marks, snapshot>>

InterruptNext ==
    \/ Next
    \/ InterruptCompile
    \/ InterruptPopen
    \/ InterruptCleanup
    \/ ChildExits

InterruptSpec == InterruptInit /\ [][InterruptNext]_vars

(***************************************************************************)
(* run() on a host where the operations of cleanup() can fail.             *)
(***************************************************************************)
CleanupInit ==
    /\ request \in {[DefaultRequest EXCEPT !.tmp_dir = t, !.overlay_enabled = o,
                                           !.isolation_level = l] :
                        t \in {None, "/data/scratch"}, o \in BOOLEAN,
                        l \in {"STANDARD", "paranoid"}}
    /\ host \in Hosts
    /\ pc = "Start"
    /\ Unconstructed
    /\ argument = None
    /\ peer = NoPeer

\* ApplicationIsolator.cleanup when rmtree raises an OSError for some of the
\* directories or monitor_resources() cannot read the usage: each handler
\* logs a warning and cleanup() goes on; resource_manager.cleanup() finds no
\* cgroup_path attribute (nothing sets it) and removes nothing
CleanupFails ==
    /\ pc = "Finally"
    /\ \E failing \in SUBSET Range(temp_dirs), monitored \in BOOLEAN :
          /\ failing # {} \/ ~monitored
          /\ fs' = CleanupWithFailures(fs, temp_dirs, failing, 1).files
          /\ log' = CleanupWithFailures(fs, temp_dirs, failing, 1).log
                    \o <<LogRecord("monitor", "/proc/self/status", monitored)>>
    /\ cleanups' = cleanups + 1
    /\ pc' = "Done"
    /\ UNCHANGED <<requestVars, callVars, peer, managerVars, childVars, app_command,
                   temp_dirs, args, plan, error, result, made, marks, snapshot>>

CleanupNext ==
    \/ Next
    \/ CleanupFails

CleanupSpec == CleanupInit /\ [][CleanupNext]_vars

(***************************************************************************)
(* Two invocations of the program at the same time on one host: the one    *)
(* above, and a second process that runs the same code.                    *)
(***************************************************************************)
\* the requests of the two invocations: without or with an explicit
\* temporary directory, and without the overlay
PairRequests ==
    {[DefaultRequest EXCEPT !.tmp_dir = t, !.overlay_enabled = FALSE] :
        t \in {None, "/data/scratch"}}

PairInit ==
    /\ request \in PairRequests
    /\ host \in Hosts
    /\ pc = "Start"
    /\ Unconstructed
    /\ argument = None
    /\ peer \in {[NoPeer EXCEPT !.pc = "Idle", !.request = r] : r \in PairRequests}

\* the second process compiles its plan and starts its child:
\* filesystem_manager.setup() on the filesystem as it is now
PeerSetup ==
    /\ peer.pc = "Idle"
    /\ \E pair \in FreshPairs(fs, peer.request) :
          /\ peer' = [peer EXCEPT
                         !.pc = "Running",
                         !.temp_dirs = setup(fs, peer.request, pair[1], pair[2]).temp_dirs,
                         !.args = setup(fs, peer.request, pair[1], pair[2]).args]
          /\ fs' = setup(fs, peer.request, pair[1], pair[2]).files
    /\ UNCHANGED <<requestVars, callVars, managerVars, childVars, cleanups, log, pc, app_command,
                   temp_dirs, args, plan, error, result, made, marks, snapshot>>

\* the second process leaves run(): filesystem_manager.cleanup()
PeerCleanup ==
    /\ peer.pc = "Running"
    /\ peer' = [peer EXCEPT !.pc = "Done"]
    /\ fs' = CleanupLoop(fs, peer.temp_dirs, 1)
    /\ UNCHANGED <<requestVars, callVars, managerVars, childVars, cleanups, log, pc, app_command,
                   temp_dirs, args, plan, error, result, made, marks, snapshot>>

PairNext ==
    \/ Next
    \/ PeerSetup
    \/ PeerCleanup

PairSpec == PairInit /\ [][PairNext]_vars

(***************************************************************************)
(* Reading a plan.                                                         *)
(***************************************************************************)
MountFlags == {"--bind", "--ro-bind", "--dev-bind"}

\* the positions of the mount rules among the first n arguments of a
MountRules(a, n) == {i \in 1..(n - 2) : a[i] \in MountFlags}

\* the positions of the mount rules of a whose target is the given path
RulesFor(a, n, target) == {i \in MountRules(a, n) : a[i + 2] = target}

\* the arguments of the compiled plan that precede the command
Options == SubSeq(plan, 1, marks[4])

\* the arguments security_manager.get_security_args() contributed to the plan
SecuritySection == SubSeq(plan, marks[2] + 1, marks[3])

HasFlag(a, flag) == \E i \in 1..Len(a) : a[i] = flag
HasPair(a, flag, value) == \E i \in 1..(Len(a) - 1) : a[i] = flag /\ a[i + 1] = value
HasSetenv(a, key, value) ==
    \E i \in 1..(Len(a) - 2) : a[i] = "--setenv" /\ a[i + 1] = key /\ a[i + 2] = value

\* the configuration validate_security_config() has to reject
InvalidSecurityConfig ==
    \/ request.isolation_level \notin IsolationLevel
    \/ request.profile # None /\ request.profile \notin ApplicationProfile

\* a directory strictly below d exists
ExistsBelow(d) == \E p \in fs : IsUnder(p, d) /\ p # d

(***************************************************************************)
(* Claims.                                                                 *)
(***************************************************************************)

C3_ValidationBeforeSideEffects ==
    InvalidSecurityConfig =>
        /\ made = {}
        /\ fs \ (host.paths \cup WithParents(request.persist_dir)) = {}
        /\ (request.persist_dir # None => ~ExistsBelow(request.persist_dir))
        /\ child = "none"
        /\ plan = <<>>
        /\ (pc = "Done" => result = <<1>>)

\* validation has failed for a request with a persist directory, and run() is over
C3_Witness ==
    /\ pc = "Done"
    /\ InvalidSecurityConfig
    /\ request.persist_dir # None
    /\ error = "NameError"
    /\ result = <<1>>

\* the exceptions the planners raise inside _prepare_bwrap_args
PlannerErrors == {"NameError", "ValueError", "IndexError", "AttributeError"}

\* C4: the child is launched only from a completely compiled plan, and once a
\* planner has raised, the child is never launched and run() returns 1.
C4_NoPartialPlanExecuted ==
    /\ child # "none" => (plan # <<>> /\ plan = args /\ Len(marks) = 5 /\ error = None)
    /\ (pc \notin {"ConfigError", "InitError"} /\ error \in PlannerErrors) =>
           (child = "none" /\ plan = <<>> /\ result = <<1>>)

\* the resource planner has rejected a size string after the mount planner
\* had created its directories, and run() is over
C4_Witness ==
    /\ pc = "Done"
    /\ error = "ValueError"
    /\ made # {}
    /\ Len(marks) = 3
    /\ child = "none"
    /\ result = <<1>>

\* C5: a request with an empty command ends in the configuration error, before
\* anything is created on the filesystem and without any plan.
C5_EmptyCommandFailsFast ==
    request.app_command = <<>> =>
        /\ pc \in {"Start", "ConfigError"}
        /\ pc = "ConfigError" => error = "ValueError"
        /\ fs = host.paths
        /\ made = {}
        /\ args = <<>>
        /\ plan = <<>>
        /\ child = "none"

C5_Witness ==
    /\ pc = "ConfigError"
    /\ request.app_command = <<>>
    /\ request.persist_dir # None
    /\ request.persist_dir \notin fs

\* the paths whose existence the compilation of a plan asks for
InspectedPaths ==
    {essential_paths[i][1] : i \in 1..Len(essential_paths)}
    \cup Range(device_nodes) \cup Range(extra_paths)
    \cup {Expanduser(user_config_paths[i]) : i \in 1..Len(user_config_paths)}
    \cup {"/run/dbus", Join(UserRuntimeDir, "bus"), UserRuntimeDir, "/tmp/.X11-unix",
          Join(Home, ".Xauthority"), Join(host.env.XDG_RUNTIME_DIR, host.env.WAYLAND_DISPLAY),
          "/usr/share/chromium/seccomp-filter.bpf"}

\* what the compilation of a plan can see of a filesystem: the inspected paths
\* and the directories searched for the command
HostView(files) ==
    {p \in files : \/ p \in InspectedPaths
                   \/ \E d \in Range(WhichPath) \cup Range(search_paths) : IsUnder(p, d)}

\* a path inside a directory mkdtemp() returned, and what follows that directory's name
IsTempPath(a) == \E t \in TempNames : IsUnder(a, t)
TempSuffix(a) ==
    LET t == CHOOSE t \in TempNames : IsUnder(a, t) IN SubSeq(a, Len(t) + 1, Len(a))

\* this run and the previous run of the request have both compiled a plan
CompiledTwice == run > 1 /\ plan # <<>> /\ prev_plan # <<>>

\* C6 as stated: two compilations of the same request against the same
\* filesystem snapshot yield the same argument list.
C6_Deterministic ==
    (CompiledTwice /\ snapshot = prev_snapshot) => plan = prev_plan

\* C6 as amended: two compilations of the same request that see the same
\* results of the existence checks yield argument lists of the same length that
\* differ only in the names of the directories mkdtemp() returned, and equal
\* lists when the compilation calls mkdtemp() for nothing.
C6_DeterministicUpToTempNames ==
    (CompiledTwice /\ HostView(snapshot) = HostView(prev_snapshot)) =>
        /\ Len(plan) = Len(prev_plan)
        /\ \A i \in 1..Len(plan) :
              \/ plan[i] = prev_plan[i]
              \/ /\ IsTempPath(plan[i])
                 /\ IsTempPath(prev_plan[i])
                 /\ TempSuffix(plan[i]) = TempSuffix(prev_plan[i])
        /\ (made = {} => plan = prev_plan)

\* the request has been compiled twice against the same snapshot, into plans
\* that name different temporary directories
C6_Witness ==
    /\ CompiledTwice
    /\ snapshot = prev_snapshot
    /\ plan # prev_plan
    /\ Len(plan) = Len(prev_plan)

\* the user-writable configuration directories the mount planner handles
OverlayTargets == {Expanduser(user_config_paths[i]) : i \in 1..Len(user_config_paths)}

\* the source of the last mount rule of the plan with this target
LastSource(target) == plan[Max(RulesFor(plan, marks[4], target)) + 1]

\* C7: for each user-writable configuration directory that the plan mounts, the
\* last rule with that target is a writable bind of a subdirectory of the
\* persist directory when one was supplied, and otherwise of a subdirectory of
\* a directory mkdtemp() created during this compilation.
C7_OverlayAuthoritative ==
    plan # <<>> =>
        \A target \in OverlayTargets :
            RulesFor(plan, marks[4], target) # {} =>
                /\ plan[Max(RulesFor(plan, marks[4], target))] = "--bind"
                /\ IF request.persist_dir # None
                   THEN /\ IsUnder(LastSource(target), request.persist_dir)
                        /\ LastSource(target) # request.persist_dir
                   ELSE \E t \in made : /\ IsUnder(LastSource(target), t)
                                         /\ LastSource(target) # t

\* the capabilities RequirementsManager declares for a profile
RequiredCapabilities(profile) == IF profile = "BROWSER" THEN {"net_admin"} ELSE {}

\* C8: at STRICT level the policy unshares the network namespace and drops all
\* capabilities, unless the profile requires a capability: then a capability
\* is added, none is dropped and no user namespace is unshared.
C8_StrictPolicy ==
    (plan # <<>> /\ request.isolation_level = "STRICT") =>
        IF RequiredCapabilities(request.profile) = {}
        THEN /\ HasFlag(Options, "--unshare-net")
             /\ ~HasFlag(Options, "--share-net")
             /\ HasPair(Options, "--cap-drop", "ALL")
        ELSE /\ HasFlag(Options, "--cap-add")
             /\ ~HasFlag(Options, "--cap-drop")
             /\ ~HasFlag(Options, "--unshare-user")
             /\ ~HasFlag(Options, "--unshare-user-try")

\* the unshare directives among the options of the plan
UnshareFlags == {a \in Range(Options) : StartsWith(a, "--unshare")}

\* C9: at MINIMAL level the plan unshares exactly the pid, ipc and uts
\* namespaces, drops no capability and sets no hostname.
C9_MinimalPolicy ==
    (plan # <<>> /\ request.isolation_level = "MINIMAL") =>
        /\ UnshareFlags = {"--unshare-pid", "--unshare-ipc", "--unshare-uts"}
        /\ ~HasFlag(Options, "--cap-drop")
        /\ ~HasFlag(Options, "--hostname")

\* C10: a plan compiled without a forced profile for a command that
\* detect_profile classifies as a browser carries the security directives and
\* the environment assignments of the browser profile.
C10_ProfileResolved ==
    (plan # <<>> /\ request.profile = None
                 /\ detect_profile(request.app_command[1]) = "BROWSER") =>
        /\ SecuritySection = get_security_args(snapshot, host.env,
                                               request.isolation_level, "BROWSER")
        /\ HasSetenv(plan, "CHROME_SANDBOX", "1")
        /\ HasSetenv(plan, "CHROME_WRAPPER", "1")
        /\ HasSetenv(plan, "CHROME_DISABLE_SETUID_SANDBOX", "1")

\* the classes of detect_profile in their order of priority
ProfileClasses ==
    << <<"BROWSER", {"chrome", "firefox", "chromium", "opera", "brave"}>>,
       <<"MULTIMEDIA", {"vlc", "mpv", "audacity", "obs"}>>,
       <<"DEVELOPMENT", {"code", "idea", "pycharm", "eclipse"}>>,
       <<"GRAPHICS", {"gimp", "inkscape", "krita", "blender"}>> >>

\* a keyword of class i occurs in the lower-cased base name of the command
ClassMatches(i, command) ==
    \E k \in ProfileClasses[i][2] : Contains(StrLower(Basename(command)), k)

\* C11: detect_profile returns a profile for every command: the first class, in
\* the order browsers, multimedia, development, graphics, one of whose keywords
\* occurs in the lower-cased base name, and BASIC when no class has one; the
\* call changes nothing else.
C11_FirstClassWins ==
    pc = "Detected" =>
        /\ returned[1] \in ApplicationProfile
        /\ \A i \in 1..Len(ProfileClasses) :
              returned[1] = ProfileClasses[i][1] <=>
                  /\ ClassMatches(i, argument)
                  /\ \A j \in 1..(i - 1) : ~ClassMatches(j, argument)
        /\ returned[1] = "BASIC" <=>
              \A i \in 1..Len(ProfileClasses) : ~ClassMatches(i, argument)
        /\ fs = host.paths

\* a command whose base name holds a browser keyword in upper case and a
\* development keyword has been classified as a browser
C11_Witness ==
    /\ pc = "Detected"
    /\ argument = "/usr/bin/Chromecode"
    /\ returned = <<"BROWSER">>

\* the documents of the profile directories that load without an error
WellFormedDocs ==
    {host.catalog[i].files[j] :
        <<i, j>> \in {ij \in (1..Len(host.catalog)) \X (1..2) :
                         /\ host.catalog[ij[1]].exists
                         /\ ij[2] <= Len(host.catalog[ij[1]].files)
                         /\ host.catalog[ij[1]].files[ij[2]].wellformed}}

\* C12: once ProfileManager() has loaded the catalog, no exception has left
\* the load, and every well-formed document of every profile directory,
\* including those beside and after a malformed one, is in the catalog.
C12_MalformedSkipped ==
    pc \in {"Idle", "InitError"} =>
        /\ error = None
        /\ \A doc \in WellFormedDocs : doc \in Range(profiles)

\* the parts of a size string: its last character and what precedes it
SizeUnit(s) == UpperChar(SubSeq(Strip(s), Len(Strip(s)), Len(Strip(s))))
SizeNumber(s) == SubSeq(Strip(s), 1, Len(Strip(s)) - 1)

\* the strings C13 calls malformed: empty, no recognized unit at the end
\* (an unknown unit or none at all), or no number before the unit
MalformedSize(s) ==
    \/ Len(Strip(s)) = 0
    \/ ~IsUnit(SizeUnit(s))
    \/ Len(SizeNumber(s)) = 0

\* C13: _parse_size maps <number><unit> to number * 1024^k for the units
\* B, K, M, G, T in either case ("2G" gives 2147483648, "500M" gives
\* 524288000), and every malformed string fails with the invalid-size-format
\* error (ValueError) and with no other outcome.
C13_SizeParsing ==
    pc = "Parsed" =>
        /\ argument = "2G" => returned[1] = [kind |-> "ok", value |-> "2147483648"]
        /\ argument = "500M" => returned[1] = [kind |-> "ok", value |-> "524288000"]
        /\ argument = "12b" => returned[1] = [kind |-> "ok", value |-> "12"]
        /\ argument = "1.5k" => returned[1] = [kind |-> "ok", value |-> "1536"]
        /\ argument = " 1t " => returned[1] = [kind |-> "ok", value |-> "1099511627776"]
        /\ (IsDecimal(SizeNumber(argument)) /\ IsUnit(SizeUnit(argument))) =>
               returned[1].kind = "ok"
        /\ MalformedSize(argument) => returned[1].kind = "ValueError"

\* self.profile_config of the isolator: the catalog document of the requested profile
ProfileConfigOfRun ==
    IF request.profile # None THEN get_profile(profiles, ProfileStr(request.profile))
    ELSE <<>>

\* a profile document with these capability tokens and ports, and no others
PolicyDoc(capabilities, network_ports) ==
    << [wellformed |-> TRUE, name |-> "policy", capabilities |-> capabilities,
        network_ports |-> network_ports, resource_limits |-> NoLimits] >>

\* the capability tokens among the options of the plan
PlanCapabilities ==
    {Options[i + 1] : i \in {j \in 1..(Len(Options) - 1) :
                                Options[j] \in {"--cap-add", "--cap-drop"}}}

\* C14: validation accepts a profile exactly when its capability tokens have
\* the CAP_ shape and its ports lie in 0..65535; a run whose validation has
\* accepted the configuration uses a profile that passes this test, declares
\* only capabilities of that shape, and emits only such tokens into its plan.
C14_PolicyValidated ==
    /\ enhanced_validate_security_config(PolicyDoc(<<"CAP_NET_ADMIN">>, <<0, 65535>>))
    /\ ~enhanced_validate_security_config(PolicyDoc(<<"net_admin">>, <<>>))
    /\ ~enhanced_validate_security_config(PolicyDoc(<<>>, <<0 - 1>>))
    /\ ~enhanced_validate_security_config(PolicyDoc(<<>>, <<65536>>))
    /\ Len(args) > 0 =>
           /\ enhanced_validate_security_config(ProfileConfigOfRun)
           /\ \A c \in RequiredCapabilities(request.profile) : StartsWith(c, "CAP_")
    /\ plan # <<>> => \A c \in PlanCapabilities : StartsWith(c, "CAP_")

\* the --rlimit directives among the options of the plan
Rlimits ==
    {Options[i + 1] : i \in {j \in 1..(Len(Options) - 1) : Options[j] = "--rlimit"}}

\* the directive the plan owes to a limit of the request: none when the limit
\* was not supplied, and otherwise exactly the one with the supplied value
RlimitFor(name, supplied, value) ==
    IF supplied THEN (name \o "=" \o value) \in Rlimits
    ELSE \A r \in Rlimits : ~StartsWith(r, name \o "=")

\* C15: the plan carries an nproc, nofile, fsize and as directive with the
\* supplied value for each of max_processes, max_files, max_file_size and
\* memory_limit that the request supplies, and no such directive for a limit
\* the request does not supply.
C15_UserLimitsApplied ==
    plan # <<>> =>
        /\ RlimitFor("nproc", request.resource_limits.max_processes # 0,
                     ToString(request.resource_limits.max_processes))
        /\ RlimitFor("nofile", request.resource_limits.max_files # 0,
                     ToString(request.resource_limits.max_files))
        /\ RlimitFor("fsize", request.resource_limits.max_file_size # "",
                     parse_size(request.resource_limits.max_file_size).value)
        /\ RlimitFor("as", request.resource_limits.memory_limit # "",
                     parse_size(request.resource_limits.memory_limit).value)

\* resource_manager.get_resource_args() has been called and has returned or raised
ResourcePlanningOver ==
    \/ Len(marks) >= 4
    \/ Len(marks) = 3 /\ pc \in {"Finally", "Done"}

\* the arguments resource_manager.get_resource_args() contributed
ResourceSection == SubSeq(args, marks[3] + 1, marks[4])

\* C16: on a host without a cgroup filesystem, resource planning returns: it
\* raises nothing, compilation goes on, and what it contributes to the plan
\* are --rlimit directives only, without any cgroup directive.
C16_RlimitsOnlyWithoutCgroup ==
    (host.cgroup = "none" /\ ResourcePlanningOver) =>
        /\ error \notin PlannerErrors
        /\ Len(marks) >= 4
        /\ ~HasFlag(ResourceSection, "--bind-data")
        /\ \A i \in 1..Len(ResourceSection) :
              IF i % 2 = 1 THEN ResourceSection[i] = "--rlimit"
              ELSE \E name \in {"nproc", "nofile", "fsize", "as"} :
                       StartsWith(ResourceSection[i], name \o "=")

\* C17: when run() has returned, its status is the exit status of the child
\* if the child was started and the wait returned without an interrupt, and
\* it is 1 if compilation raised or the child could not be started.
C17_ReportedStatus ==
    pc = "Done" =>
        /\ (child = "exited" /\ ~interrupted) => result = exit_code
        /\ error \in PlannerErrors => result = <<1>>
        /\ error = "OSError" => result = <<1>>
        /\ child = "none" => (error # None /\ result = <<1>>)

\* a child that exited with a status of its own, which run() has reported
C17_Witness ==
    /\ pc = "Done"
    /\ child = "exited"
    /\ ~interrupted
    /\ exit_code = <<130>>
    /\ result = <<130>>

\* C18: a plan compiled for a request with network_enabled = FALSE unshares
\* the network namespace and does not share the network, whatever the
\* isolation level and the profile.
C18_NetworkDisabled ==
    (plan # <<>> /\ ~request.network_enabled) =>
        /\ HasFlag(Options, "--unshare-net")
        /\ ~HasFlag(Options, "--share-net")

\* the sources of the mount rules of an argument list
MountSources(a) == {a[i + 1] : i \in MountRules(a, Len(a))}

\* both invocations hold temporary directories: each is between its setup()
\* and its cleanup()
BothActive == temp_dirs # <<>> /\ pc # "Done" /\ peer.pc = "Running"

\* C19: while two invocations both hold temporary directories, no directory
\* that one of them will delete at cleanup, and nothing below it, is a mount
\* source of the other.
C19_TempDirsExclusive ==
    BothActive =>
        /\ \A d \in Range(temp_dirs) : \A source \in MountSources(peer.args) :
              ~IsUnder(source, d)
        /\ \A d \in Range(peer.temp_dirs) : \A source \in MountSources(args) :
              ~IsUnder(source, d)

\* C20: run() calls cleanup() once and never twice, not before the wait on a
\* started child has returned or has been abandoned by an interrupt, and
\* never while the wait is in flight, wherever interrupts arrive.
C20_CleanupOnce ==
    /\ cleanups <= 1
    /\ pc = "Done" => cleanups = 1
    /\ pc = "Waiting" => cleanups = 0
    /\ (cleanups > 0 /\ child # "none") =>
           \/ child = "exited" /\ exit_code # <<>>
           \/ interrupted

\* the wait on a running child was abandoned by an interrupt, and cleanup()
\* has run once
C20_Witness ==
    /\ pc = "Done"
    /\ child = "running"
    /\ interrupted
    /\ cleanups = 1
    /\ result = <<130>>

\* C21: in every compiled plan no mount rule follows a namespace or security
\* directive, no environment assignment precedes a resource directive, and
\* the tokens of the command are the last elements.
C21_SectionOrder ==
    LET mounts == MountFlags \cup {"--tmpfs", "--proc", "--dev", "--dir", "--symlink"}
        security == {"--unshare-pid", "--unshare-ipc", "--unshare-uts", "--unshare-net",
                     "--unshare-cgroup-try", "--unshare-user-try", "--share-net",
                     "--new-session", "--die-with-parent", "--hostname", "--cap-add",
                     "--cap-drop", "--seccomp"}
        resources == {"--rlimit", "--bind-data"}
    IN  plan # <<>> =>
            /\ \A i, j \in 1..Len(plan) :
                  (i < j /\ plan[i] \in security) => plan[j] \notin mounts
            /\ \A i, j \in 1..Len(plan) :
                  (i < j /\ plan[i] = "--setenv") => plan[j] \notin resources
            /\ SubSeq(plan, Len(plan) - Len(app_command) + 1, Len(plan)) = app_command

\* C22: in a plan compiled for the browser profile the three sandbox
\* cooperation assignments are options of the runtime, before the command, and
\* what follows the options (the argv of the child) is exactly the resolved
\* command with its arguments.
C22_BrowserEnvBeforeCommand ==
    (plan # <<>> /\ request.profile = "BROWSER") =>
        /\ \A key \in {"CHROME_SANDBOX", "CHROME_WRAPPER", "CHROME_DISABLE_SETUID_SANDBOX"} :
              HasSetenv(Options, key, "1")
        /\ SubSeq(plan, marks[4] + 1, Len(plan)) = app_command

\* C23: in every compiled plan the last rule whose target is /tmp is a bind of
\* the explicit temporary directory when the request names one, and otherwise
\* a tmpfs; it is never a bind of the /tmp of the host.
C23_TmpAuthoritative ==
    LET binds == RulesFor(plan, marks[4], "/tmp")
        tmpfs == {i \in 1..(marks[4] - 1) : plan[i] = "--tmpfs" /\ plan[i + 1] = "/tmp"}
        last == Max(binds \cup tmpfs)
    IN  plan # <<>> =>
            /\ binds \cup tmpfs # {}
            /\ IF request.tmp_dir # None
               THEN last \in binds /\ plan[last] = "--bind"
                                   /\ plan[last + 1] = request.tmp_dir
               ELSE last \in tmpfs
            /\ last \in binds => plan[last + 1] # "/tmp"

\* C24: whatever fails in cleanup(), cleanup() finishes: run() keeps the
\* status and the exception it had before cleanup began, rmtree has been
\* called for every entry of temp_dirs whether or not an earlier one failed,
\* every directory whose rmtree returned is gone, and every directory that is
\* left has a warning in the log.
C24_CleanupErrorsSuppressed ==
    [][pc = "Finally" =>
          /\ pc' = "Done"
          /\ result' = result
          /\ error' = error
          /\ Len(log') >= Len(temp_dirs)
          /\ \A i \in 1..Len(temp_dirs) :
                /\ log'[i].op = "rmtree"
                /\ log'[i].target = temp_dirs[i]
                /\ log'[i].ok => temp_dirs[i] \notin fs'
                /\ temp_dirs[i] \in fs' => ~log'[i].ok]_vars

\* the first rmtree and the capture of the usage failed, the second directory
\* was removed all the same, and run() reports the status of the child
C24_Witness ==
    /\ pc = "Done"
    /\ Len(temp_dirs) = 2
    /\ Len(log) = 3
    /\ ~log[1].ok /\ temp_dirs[1] \in fs
    /\ log[2].ok /\ temp_dirs[2] \notin fs
    /\ ~log[3].ok
    /\ child = "exited"
    /\ result = exit_code
    /\ error = None

\* C25: when run() has finished, on every exit path, nothing that existed when
\* run() began is missing: the explicit temporary directory of the request and
\* the persist directory still exist with what they contained.
C25_UserDirsKept ==
    pc = "Done" =>
        /\ snapshot \subseteq fs
        /\ request.tmp_dir # None =>
              \A p \in snapshot : IsUnder(p, request.tmp_dir) => p \in fs
        /\ request.persist_dir # None =>
              /\ request.persist_dir \in fs
              /\ \A p \in snapshot : IsUnder(p, request.persist_dir) => p \in fs

\* C26: while the child is running no step removes a temporary directory that
\* holds a mount source of the plan, whether the child ends first, an
\* interrupt abandons the wait or cleanup() runs.
C26_NoRemovalWhileChildAlive ==
    [][child = "running" =>
          \A d \in Range(temp_dirs) :
              (d \in fs /\ \E source \in MountSources(plan) : IsUnder(source, d)) =>
                  d \in fs']_vars

====
